---- MODULE Spec2Model ----
(***************************************************************************)
(* A model of the CHIP-8 machine core of src/src/main.rs: the Chip8 struct *)
(* as one record, every opcode function as an operator from machine to    *)
(* machine, and one cycle (Chip8::emulate) as one action.                  *)
(*                                                                         *)
(* Rust arithmetic on u8/u16 with +, -, += and -= panics on overflow when  *)
(* the build has overflow checks (debug profile) and wraps when it has not *)
(* (release profile); overflow_checks is that build choice, fixed for a    *)
(* run.  Slice indexing outside the array panics in every build.  A panic  *)
(* ends the process: the record keeps the fields as they were at the       *)
(* panicking statement and fault names the panic.                          *)
(*                                                                         *)
(* The two big arrays are written sparsely.  memory, [u8; 4096], is the    *)
(* function from the addresses holding a nonzero byte to that byte: every  *)
(* other address in 0..4095 holds 0.  display, [[bool; 64]; 32], is the    *)
(* set of the cells <<y, x>> that are true.                                *)
(***************************************************************************)
EXTENDS Integers, Sequences, FiniteSets, TLC

VARIABLES
    chip8,            \* the Chip8 struct, plus fault (the process's status)
    overflow_checks,  \* build profile: TRUE = arithmetic overflow panics
    cycles,           \* number of emulate() calls made so far
    prev              \* history: opcode dispatched by the latest cycle and
                      \* the machine as it was when that cycle started

vars == <<chip8, overflow_checks, cycles, prev>>

MEMORY_SIZE == 4096
NUM_REGISTERS == 16
STACK_SIZE == 16
NUM_KEYS == 16
DISPLAY_WIDTH == 64
DISPLAY_HEIGHT == 32
PROGRAM_START == 512

\* Number of cycles a run is followed for.
MaxCycles == 6

NoFault == "none"
ArithOverflow == "attempt to add/subtract with overflow"
IndexOutOfBounds == "index out of bounds"

----------------------------------------------------------------------------
(* Machine integers *)

U8(v) == ((v % 256) + 256) % 256
U16(v) == ((v % 65536) + 65536) % 65536
Ovf8(v) == v < 0 \/ v > 255
Ovf16(v) == v < 0 \/ v > 65535

RECURSIVE BitAnd(_, _)
BitAnd(a, b) ==
    IF a = 0 \/ b = 0 THEN 0
    ELSE (a % 2) * (b % 2) + 2 * BitAnd(a \div 2, b \div 2)

RECURSIVE BitOr(_, _)
BitOr(a, b) ==
    IF a = 0 THEN b
    ELSE IF b = 0 THEN a
    ELSE (IF a % 2 = 1 \/ b % 2 = 1 THEN 1 ELSE 0) + 2 * BitOr(a \div 2, b \div 2)

RECURSIVE BitXor(_, _)
BitXor(a, b) ==
    IF a = 0 THEN b
    ELSE IF b = 0 THEN a
    ELSE ((a + b) % 2) + 2 * BitXor(a \div 2, b \div 2)

RECURSIVE Pow2(_)
Pow2(n) == IF n = 0 THEN 1 ELSE 2 * Pow2(n - 1)

Shr(a, n) == a \div Pow2(n)

Panic(m, what) == [m EXCEPT !.fault = what]

\* memory[a] and memory[a] = v, for a in 0..4095.
mem_read(mem, a) == IF a \in DOMAIN mem THEN mem[a] ELSE 0

mem_write(mem, a, v) ==
    [b \in (DOMAIN mem \ {a}) \cup (IF v = 0 THEN {} ELSE {a}) |->
        IF b = a THEN v ELSE mem[b]]

\* display[y][x]
pixel(display, y, x) == <<y, x>> \in display

----------------------------------------------------------------------------
(* Chip8::new *)

font_set ==
    << 240, 144, 144, 144, 240,
        32,  96,  32,  32, 112,
       240,  16, 240, 128, 240,
       240,  16, 240,  16, 240,
       144, 144, 240,  16,  16,
       240, 128, 240,  16, 240,
       240, 128, 240, 144, 240,
       240,  16,  32,  64,  64,
       240, 144, 240, 144, 240,
       240, 144, 240,  16, 240,
       240, 144, 240, 144, 144,
       224, 144, 224, 144, 224,
       240, 128, 128, 128, 240,
       224, 144, 144, 144, 224,
       240, 128, 240, 128, 240,
       240, 128, 240, 128, 128 >>

new ==
    [ memory        |-> [a \in {b \in 0..(Len(font_set) - 1) : font_set[b + 1] # 0} |->
                            font_set[a + 1]],
      registers     |-> [r \in 0..(NUM_REGISTERS - 1) |-> 0],
      index         |-> 0,
      pc            |-> PROGRAM_START,
      stack         |-> [s \in 0..(STACK_SIZE - 1) |-> 0],
      stack_pointer |-> 0,
      delay_timer   |-> 0,
      sound_timer   |-> 0,
      inputs        |-> [k \in 0..(NUM_KEYS - 1) |-> FALSE],
      display       |-> {},
      fault         |-> NoFault ]

\* main: chip8.memory[0x200] = ..; chip8.memory[0x201] = ..; and so on, the
\* program's 16-bit words poked big-endian one after the other.
RECURSIVE poke_words(_, _, _)
poke_words(m, words, i) ==
    IF i > Len(words) THEN m
    ELSE poke_words(
             [m EXCEPT !.memory =
                 mem_write(mem_write(@, PROGRAM_START + 2 * (i - 1), words[i] \div 256),
                           PROGRAM_START + 2 * (i - 1) + 1, words[i] % 256)],
             words, i + 1)

load_program(m, words) == poke_words(m, words, 1)

----------------------------------------------------------------------------
(* Op code functions *)

return_subroutine(m) ==
    LET sp == m.stack_pointer - 1 IN
    IF Ovf8(sp) /\ overflow_checks THEN Panic(m, ArithOverflow)
    ELSE LET m1 == [m EXCEPT !.stack_pointer = U8(sp)] IN
         IF m1.stack_pointer >= STACK_SIZE THEN Panic(m1, IndexOutOfBounds)
         ELSE [m1 EXCEPT !.pc = m1.stack[m1.stack_pointer]]

call_subroutine(m, addr) ==
    LET sp == m.stack_pointer + 1 IN
    IF Ovf8(sp) /\ overflow_checks THEN Panic(m, ArithOverflow)
    ELSE LET m1 == [m EXCEPT !.stack_pointer = U8(sp)] IN
         IF m1.stack_pointer >= STACK_SIZE THEN Panic(m1, IndexOutOfBounds)
         ELSE [m1 EXCEPT !.stack[m1.stack_pointer] = addr]

skip_if_condition(m, con) ==
    IF con
    THEN IF Ovf16(m.pc + 2) /\ overflow_checks THEN Panic(m, ArithOverflow)
         ELSE [m EXCEPT !.pc = U16(m.pc + 2)]
    ELSE m

add_byte(m, x, byte) ==
    LET sum == m.registers[x] + byte IN
    IF Ovf8(sum) /\ overflow_checks THEN Panic(m, ArithOverflow)
    ELSE [m EXCEPT !.registers[x] = U8(sum)]

\* add_registers with the two stores swapped (the flag first, as the
\* subtractions do).
add_registers_flag_first(m, x, y) ==
    LET wide  == m.registers[x] + m.registers[y]
        m1    == [m EXCEPT !.registers[15] = IF Ovf8(wide) THEN 1 ELSE 0]
    IN  [m1 EXCEPT !.registers[x] = U8(wide)]

add_registers(m, x, y) ==
    LET wide  == m.registers[x] + m.registers[y]
        sum   == U8(wide)
        carry == Ovf8(wide)
        m1    == [m EXCEPT !.registers[x] = sum]
    IN  [m1 EXCEPT !.registers[15] = IF carry THEN 1 ELSE 0]

sub_registers(m, x, y) ==
    LET m1 == [m EXCEPT !.registers[15] =
                  IF m.registers[x] >= m.registers[y] THEN 1 ELSE 0]
        diff == m1.registers[x] - m1.registers[y]
    IN  IF Ovf8(diff) /\ overflow_checks THEN Panic(m1, ArithOverflow)
        ELSE [m1 EXCEPT !.registers[x] = U8(diff)]

shift_right(m, x) ==
    LET m1 == [m EXCEPT !.registers[15] = BitAnd(m.registers[x], 1)]
    IN  [m1 EXCEPT !.registers[x] = Shr(m1.registers[x], 1)]

sub_registers_n(m, x, y) ==
    LET m1 == [m EXCEPT !.registers[15] =
                  IF m.registers[y] >= m.registers[x] THEN 1 ELSE 0]
        diff == m1.registers[y] - m1.registers[x]
    IN  IF Ovf8(diff) /\ overflow_checks THEN Panic(m1, ArithOverflow)
        ELSE [m1 EXCEPT !.registers[x] = U8(diff)]

shift_left(m, x) ==
    LET m1 == [m EXCEPT !.registers[15] = Shr(BitAnd(m.registers[x], 128), 7)]
    IN  [m1 EXCEPT !.registers[x] = U8(m1.registers[x] * 2)]

\* The loops of draw_sprite.  One call is one pass of the outer loop (sprite
\* row y_offset); the inner loop's eight cells lie in one display row at
\* eight different columns (8 < DISPLAY_WIDTH), so its eight XORs and its
\* collision test are taken together as sets.
\* draw_rows with the collision flag of the last row only.
RECURSIVE draw_rows_last_row_flag(_, _, _, _, _, _)
draw_rows_last_row_flag(m, carry, x_coord, y_coord, n, y_offset) ==
    IF y_offset >= n
    THEN [m EXCEPT !.registers[15] = IF carry THEN 1 ELSE 0]
    ELSE IF m.index + y_offset >= MEMORY_SIZE
         THEN Panic(m, IndexOutOfBounds)
         ELSE LET src   == mem_read(m.memory, m.index + y_offset)
                  y     == (y_coord + y_offset) % DISPLAY_HEIGHT
                  cells == { <<y, (x_coord + x_offset) % DISPLAY_WIDTH>> :
                                 x_offset \in {c \in 0..7 : BitAnd(src, Shr(128, c)) # 0} }
                  hit   == \E c \in cells : pixel(m.display, c[1], c[2])
                  shown == (m.display \ cells) \cup (cells \ m.display)
              IN  draw_rows_last_row_flag([m EXCEPT !.display = shown], hit,
                                          x_coord, y_coord, n, y_offset + 1)

\* draw_rows setting the sprite's cells (|= in place of ^=).
RECURSIVE draw_rows_or(_, _, _, _, _, _)
draw_rows_or(m, carry, x_coord, y_coord, n, y_offset) ==
    IF y_offset >= n
    THEN [m EXCEPT !.registers[15] = IF carry THEN 1 ELSE 0]
    ELSE IF m.index + y_offset >= MEMORY_SIZE
         THEN Panic(m, IndexOutOfBounds)
         ELSE LET src   == mem_read(m.memory, m.index + y_offset)
                  y     == (y_coord + y_offset) % DISPLAY_HEIGHT
                  cells == { <<y, (x_coord + x_offset) % DISPLAY_WIDTH>> :
                                 x_offset \in {c \in 0..7 : BitAnd(src, Shr(128, c)) # 0} }
                  hit   == \E c \in cells : pixel(m.display, c[1], c[2])
              IN  draw_rows_or([m EXCEPT !.display = m.display \cup cells], carry \/ hit,
                               x_coord, y_coord, n, y_offset + 1)

RECURSIVE draw_rows(_, _, _, _, _, _)
draw_rows(m, carry, x_coord, y_coord, n, y_offset) ==
    IF y_offset >= n
    THEN [m EXCEPT !.registers[15] = IF carry THEN 1 ELSE 0]
    ELSE IF m.index + y_offset >= MEMORY_SIZE
         THEN Panic(m, IndexOutOfBounds)
         ELSE LET src   == mem_read(m.memory, m.index + y_offset)
                  y     == (y_coord + y_offset) % DISPLAY_HEIGHT
                  cells == { <<y, (x_coord + x_offset) % DISPLAY_WIDTH>> :
                                 x_offset \in {c \in 0..7 : BitAnd(src, Shr(128, c)) # 0} }
                  hit   == \E c \in cells : pixel(m.display, c[1], c[2])
                  shown == (m.display \ cells) \cup (cells \ m.display)
              IN  draw_rows([m EXCEPT !.display = shown], carry \/ hit,
                            x_coord, y_coord, n, y_offset + 1)

draw_sprite(m, x_reg, y_reg, n) ==
    draw_rows(m, FALSE, m.registers[x_reg], m.registers[y_reg], n, 0)

\* wait_for_input taking the last held key in place of the first.
wait_for_input_last_key(m, x) ==
    LET held == {k \in 0..(NUM_KEYS - 1) : m.inputs[k]} IN
    IF held # {}
    THEN [m EXCEPT !.registers[x] =
             CHOOSE k \in held : \A j \in held : k >= j]
    ELSE IF Ovf16(m.pc - 2) /\ overflow_checks THEN Panic(m, ArithOverflow)
         ELSE [m EXCEPT !.pc = U16(m.pc - 2)]

\* wait_for_input without the roll-back of pc.
wait_for_input_no_rollback(m, x) ==
    LET held == {k \in 0..(NUM_KEYS - 1) : m.inputs[k]} IN
    IF held # {}
    THEN [m EXCEPT !.registers[x] =
             CHOOSE k \in held : \A j \in held : k <= j]
    ELSE m

wait_for_input(m, x) ==
    LET held == {k \in 0..(NUM_KEYS - 1) : m.inputs[k]} IN
    IF held # {}
    THEN [m EXCEPT !.registers[x] =
             CHOOSE k \in held : \A j \in held : k <= j]
    ELSE IF Ovf16(m.pc - 2) /\ overflow_checks THEN Panic(m, ArithOverflow)
         ELSE [m EXCEPT !.pc = U16(m.pc - 2)]

add_index(m, x) ==
    LET sum == m.index + m.registers[x] IN
    IF Ovf16(sum) /\ overflow_checks THEN Panic(m, ArithOverflow)
    ELSE [m EXCEPT !.index = U16(sum)]

\* load_font with glyphs four bytes apart.
load_font_times_four(m, x) == [m EXCEPT !.index = m.registers[x] * 4]

load_font(m, x) == [m EXCEPT !.index = m.registers[x] * 5]

store_binary_coded_decimal(m, x) ==
    LET val == m.registers[x] IN
    IF m.index >= MEMORY_SIZE THEN Panic(m, IndexOutOfBounds)
    ELSE LET m1 == [m EXCEPT !.memory = mem_write(@, m.index, val \div 100)] IN
    IF Ovf16(m1.index + 1) /\ overflow_checks THEN Panic(m1, ArithOverflow)
    ELSE IF U16(m1.index + 1) >= MEMORY_SIZE THEN Panic(m1, IndexOutOfBounds)
    ELSE LET m2 == [m1 EXCEPT !.memory =
                       mem_write(@, U16(m1.index + 1), (val % 100) \div 10)] IN
    IF Ovf16(m2.index + 2) /\ overflow_checks THEN Panic(m2, ArithOverflow)
    ELSE IF U16(m2.index + 2) >= MEMORY_SIZE THEN Panic(m2, IndexOutOfBounds)
    ELSE [m2 EXCEPT !.memory = mem_write(@, U16(m2.index + 2), val % 10)]

\* store_regs with the loop running to x inclusive (0..=x).
RECURSIVE store_regs_inclusive(_, _, _)
store_regs_inclusive(m, x, reg_index) ==
    IF reg_index > x THEN m
    ELSE IF m.index + reg_index >= MEMORY_SIZE THEN Panic(m, IndexOutOfBounds)
    ELSE store_regs_inclusive(
             [m EXCEPT !.memory =
                 mem_write(@, m.index + reg_index, m.registers[reg_index])],
             x, reg_index + 1)

RECURSIVE store_regs(_, _, _)
store_regs(m, x, reg_index) ==
    IF reg_index >= x THEN m
    ELSE IF m.index + reg_index >= MEMORY_SIZE THEN Panic(m, IndexOutOfBounds)
    ELSE store_regs([m EXCEPT !.memory =
                        mem_write(@, m.index + reg_index, m.registers[reg_index])],
                    x, reg_index + 1)

store_many_registers(m, x) == store_regs(m, x, 0)

RECURSIVE load_regs(_, _, _)
load_regs(m, x, reg_index) ==
    IF reg_index >= x THEN m
    ELSE IF m.index + reg_index >= MEMORY_SIZE THEN Panic(m, IndexOutOfBounds)
    ELSE load_regs([m EXCEPT !.registers[reg_index] =
                       mem_read(m.memory, m.index + reg_index)],
                   x, reg_index + 1)

load_many_registers(m, x) == load_regs(m, x, 0)

\* self.inputs[self.registers[x] as usize]
key_held(m, x) == m.inputs[m.registers[x]]

skip_if_key(m, x, want) ==
    IF m.registers[x] >= NUM_KEYS THEN Panic(m, IndexOutOfBounds)
    ELSE skip_if_condition(m, key_held(m, x) = want)

jump_v0(m, addr) ==
    LET sum == addr + m.registers[0] IN
    IF Ovf16(sum) /\ overflow_checks THEN Panic(m, ArithOverflow)
    ELSE [m EXCEPT !.pc = BitAnd(U16(sum), 16383)]

\* CLS clearing the first display row only.
cls_first_row(m) == [m EXCEPT !.display = {c \in @ : c[1] # 0}]

cls(m) == [m EXCEPT !.display = {}]

----------------------------------------------------------------------------
(* Chip8::execute and Chip8::emulate *)

\* rnd is the byte rand::thread_rng().gen::<u8>() returns.
execute(m, opcode, rnd) ==
    LET addr   == BitAnd(opcode, 4095)
        x      == Shr(BitAnd(opcode, 3840), 8)
        y      == Shr(BitAnd(opcode, 240), 4)
        byte   == BitAnd(opcode, 255)
        nibble == BitAnd(opcode, 15)
        top    == Shr(BitAnd(opcode, 61440), 12)
    IN  CASE top = 0 ->
                 (CASE opcode = 224 -> cls(m)
                    [] opcode = 238 -> return_subroutine(m)
                    [] OTHER -> m)
          [] top = 1 -> [m EXCEPT !.pc = addr]
          [] top = 2 -> call_subroutine(m, addr)
          [] top = 3 -> skip_if_condition(m, m.registers[x] = byte)
          [] top = 4 -> skip_if_condition(m, m.registers[x] # byte)
          [] top = 5 -> skip_if_condition(m, m.registers[x] = m.registers[y])
          [] top = 6 -> [m EXCEPT !.registers[x] = byte]
          [] top = 7 -> add_byte(m, x, byte)
          [] top = 8 ->
                 (CASE nibble = 0 -> [m EXCEPT !.registers[x] = m.registers[y]]
                    [] nibble = 1 -> [m EXCEPT !.registers[x] =
                                         BitOr(m.registers[x], m.registers[y])]
                    [] nibble = 2 -> [m EXCEPT !.registers[x] =
                                         BitAnd(m.registers[x], m.registers[y])]
                    [] nibble = 3 -> [m EXCEPT !.registers[x] =
                                         BitXor(m.registers[x], m.registers[y])]
                    [] nibble = 4 -> add_registers(m, x, y)
                    [] nibble = 5 -> sub_registers(m, x, y)
                    [] nibble = 6 -> shift_right(m, x)
                    [] nibble = 7 -> sub_registers_n(m, x, y)
                    [] nibble = 14 -> shift_left(m, x)
                    [] OTHER -> m)
          [] top = 9 -> skip_if_condition(m, m.registers[x] # m.registers[y])
          [] top = 10 -> [m EXCEPT !.index = addr]
          [] top = 11 -> jump_v0(m, addr)
          [] top = 12 -> [m EXCEPT !.registers[x] = BitAnd(rnd, byte)]
          [] top = 13 -> draw_sprite(m, x, y, nibble)
          [] top = 14 ->
                 (CASE byte = 158 -> skip_if_key(m, x, TRUE)
                    [] byte = 161 -> skip_if_key(m, x, FALSE)
                    [] OTHER -> m)
          [] top = 15 ->
                 (CASE byte = 7 -> [m EXCEPT !.registers[x] = m.delay_timer]
                    [] byte = 10 -> wait_for_input(m, x)
                    [] byte = 21 -> [m EXCEPT !.delay_timer = m.registers[x]]
                    [] byte = 24 -> [m EXCEPT !.sound_timer = m.registers[x]]
                    [] byte = 30 -> add_index(m, x)
                    [] byte = 41 -> load_font(m, x)
                    [] byte = 51 -> store_binary_coded_decimal(m, x)
                    [] byte = 85 -> store_many_registers(m, x)
                    [] byte = 101 -> load_many_registers(m, x)
                    [] OTHER -> m)

\* The opcode emulate() fetches; -1 when the fetch itself panics.
fetch(m) ==
    IF m.pc >= MEMORY_SIZE \/ m.pc + 1 >= MEMORY_SIZE THEN -1
    ELSE mem_read(m.memory, m.pc) * 256 + mem_read(m.memory, m.pc + 1)

\* tick_timers decrementing without the test for zero.
tick_timers_wrapping(m) ==
    [m EXCEPT !.delay_timer = U8(m.delay_timer - 1),
              !.sound_timer = U8(m.sound_timer - 1)]

tick_timers(m) ==
    LET m1 == IF m.delay_timer > 0
              THEN [m EXCEPT !.delay_timer = m.delay_timer - 1] ELSE m
    IN  IF m1.sound_timer > 0
        THEN [m1 EXCEPT !.sound_timer = m1.sound_timer - 1] ELSE m1

emulate(m, rnd) ==
    LET opcode == fetch(m) IN
    IF opcode = -1 THEN Panic(m, IndexOutOfBounds)
    ELSE IF Ovf16(m.pc + 2) /\ overflow_checks THEN Panic(m, ArithOverflow)
    ELSE LET m1 == [m EXCEPT !.pc = U16(m.pc + 2)]
             m2 == execute(m1, opcode, rnd)
         IN  IF m2.fault # NoFault THEN m2 ELSE tick_timers(m2)

----------------------------------------------------------------------------
(* Programs: the words main pokes into memory from 0x200 on *)

Op(a, b, c, d) == a * 4096 + b * 256 + c * 16 + d
OpXkk(a, x, kk) == a * 4096 + x * 256 + kk
OpNnn(a, nnn) == a * 4096 + nnn

CLS == 224
RET == 238
JP(nnn) == OpNnn(1, nnn)
CALL(nnn) == OpNnn(2, nnn)
LD(x, kk) == OpXkk(6, x, kk)
ADD(x, kk) == OpXkk(7, x, kk)
LDI(nnn) == OpNnn(10, nnn)
DRW(x, y, n) == Op(13, x, y, n)
LDK(x) == OpXkk(15, x, 10)
LDDT(x) == OpXkk(15, x, 21)
LDST(x) == OpXkk(15, x, 24)
LDF(x) == OpXkk(15, x, 41)
LDXDT(x) == OpXkk(15, x, 7)
JPV0(nnn) == OpNnn(11, nnn)
SKP(x) == OpXkk(14, x, 158)
SKNP(x) == OpXkk(14, x, 161)
ADDI(x) == OpXkk(15, x, 30)
LDB(x) == OpXkk(15, x, 51)
LDIX(x) == OpXkk(15, x, 85)
LDXI(x) == OpXkk(15, x, 101)

\* Register indices and byte values the programs use.
Regs == {0, 1, 15}
ByteVals == {0, 1, 200, 255}

\* Two registers are loaded, then one of 8xy4, 8xy5, 8xy7 runs; or one
\* register is loaded and 7xkk runs.
ArithPrograms ==
    { <<LD(x, a), LD(y, b), Op(8, x, y, f)>> :
          x \in Regs, y \in Regs, a \in ByteVals, b \in ByteVals, f \in {4, 5, 7} }
    \cup
    { <<LD(x, a), ADD(x, kk)>> : x \in Regs, a \in ByteVals, kk \in ByteVals }

\* Call and return: a call whose target is the return instruction that
\* follows it, a return on the empty stack, nested calls.
CallPrograms ==
    { <<CALL(514), RET>>,
      <<CALL(768), RET>>,
      <<RET>>,
      <<CALL(516), CALL(518), RET, RET>>,
      <<CALL(518), LD(0, 1), JP(516), RET>>,
      <<CALL(514), CALL(516), CALL(518), CALL(520), CALL(522), CALL(524)>> }

\* Sprites: font glyphs 0, 1 and F (15 rows from 75 run into zeroed memory),
\* the program's own bytes, zeroed memory, the last two bytes of memory.
SpriteAddrs == {0, 5, 75, 512, 768, 4094}
SpriteRows == {0, 1, 5, 15}
DrawRegs == {<<0, 1>>, <<1, 0>>, <<0, 0>>, <<15, 1>>, <<1, 15>>}
DrawCoords == {<<0, 0>>, <<60, 30>>, <<255, 255>>, <<3, 29>>}

\* The same sprite drawn twice in succession.
DrawTwicePrograms ==
    { <<LD(r[1], c[1]), LD(r[2], c[2]), LDI(i), DRW(r[1], r[2], n), DRW(r[1], r[2], n)>> :
          r \in DrawRegs, c \in DrawCoords, i \in SpriteAddrs, n \in SpriteRows }

\* A first sprite at (0, 0), then either a clear or a move, then a second sprite.
DrawOverPrograms ==
    { <<LDI(i), DRW(0, 0, n), mid, LDI(j), DRW(0, 1, k)>> :
          i \in {0, 5, 75}, n \in {1, 5}, mid \in {LD(0, 2), LD(1, 1)},
          j \in {0, 5, 768}, k \in {1, 5} }
    \cup
    { <<LDI(i), DRW(0, 0, n), LDI(j), CLS, DRW(0, 1, k)>> :
          i \in {0, 5, 75}, n \in {1, 5}, j \in {0, 5, 768}, k \in {1, 5} }
    \cup
    { <<LDI(i), DRW(0, 0, n), LDI(j), DRW(0, 1, k), DRW(0, 1, k)>> :
          i \in {0, 75}, n \in {1, 5}, j \in {5, 768}, k \in {1, 5} }
    \cup
    { <<LD(1, c), LDI(j), CLS, DRW(0, 1, k)>> :
          c \in {0, 30, 255}, j \in SpriteAddrs, k \in SpriteRows }

\* The bytes main pokes at 0x200: 63 01 F3 29 D0 05 F0 0A.
MainRom == <<LD(3, 1), LDF(3), DRW(0, 0, 5), LDK(0)>>

\* Timers set, then a wait for a key; the last is the ROM of main.
WaitPrograms ==
    { <<LD(0, 5), LDDT(0), LDST(0), LDK(1)>>,
      <<LD(0, 2), LDST(0), LDK(0)>>,
      <<LD(15, 1), LDDT(15), LDK(15)>>,
      <<LDK(0)>>,
      <<LDK(3), LDK(4)>>,
      MainRom }

\* Both timers set from V1, then an instruction that reads or sets a timer,
\* or another one (a clear, an add, a draw, a jump, a word no arm matches).
TimerVals == {0, 1, 2, 255}
TimerPrograms ==
    { <<LD(1, a), LDDT(1), LD(1, b), LDST(1), ins>> :
          a \in TimerVals, b \in TimerVals,
          ins \in {CLS, LDXDT(0), LDDT(0), LDST(0), LDDT(1), ADD(1, 1), DRW(0, 0, 1),
                   JP(520), Op(8, 0, 1, 8)} }

\* Words outside the instruction set after V0 and V1 are loaded: 0nnn other
\* than 00E0 and 00EE, 5xyN and 9xyN with N # 0, 8xyN with N in 8..D or F,
\* Exkk other than 9E and A1, Fxkk other than the bytes execute lists.
OtherWords ==
    { 0, 291, 225, Op(5, 0, 1, 1), Op(5, 0, 1, 15), Op(9, 0, 1, 1), Op(9, 0, 1, 15),
      Op(8, 0, 1, 8), Op(8, 0, 1, 13), Op(8, 0, 1, 15),
      OpXkk(14, 0, 0), OpXkk(14, 1, 159), OpXkk(15, 0, 0), OpXkk(15, 1, 86),
      OpXkk(15, 0, 255) }
OtherWordPrograms ==
    { <<LD(0, a), LD(1, b), w>> : a \in {0, 1}, b \in {0, 1}, w \in OtherWords }

\* Registers stored to memory at I and loaded back, over the font, over
\* zeroed memory, over the program and at the end of memory; the decimal
\* digits of a register stored at I, with I as new() leaves it or loaded.
StoreAddrs == {0, 78, 514, 768, 4094}
StoreCounts == {0, 1, 2, 3, 15}
StorePrograms ==
    { <<LD(0, a), LD(1, b), LDI(i), LDIX(x), LDXI(x)>> :
          a \in {0, 7, 255}, b \in {0, 7, 255}, i \in StoreAddrs, x \in StoreCounts }
    \cup
    { <<LD(0, a), LDI(i), LDIX(x), LD(0, 9), LDXI(x)>> :
          a \in {0, 7}, i \in StoreAddrs, x \in {1, 2} }
    \cup
    { <<LDI(i), LDXI(x)>> : i \in {0, 5, 512, 4090}, x \in StoreCounts }
    \cup
    { <<LD(r, v), LDI(i), LDB(r)>> :
          r \in {0, 15}, v \in {0, 7, 200, 255}, i \in {0, 79, 768, 4093, 4094, 4095} }
    \cup
    { <<LD(0, v), LDB(0)>> : v \in {0, 7, 240} }

\* I loaded, then raised twice by V0, then set to a glyph address.
IndexPrograms ==
    { <<LD(0, v), LDI(a), ADDI(0), ADDI(0), LDF(0)>> :
          v \in ByteVals, a \in {0, 3900, 4095} }

\* Jumps: Bnnn with V0 loaded; 1nnn to the last bytes of memory.
JumpPrograms ==
    { <<LD(0, v), JPV0(nnn)>> : v \in ByteVals, nnn \in {512, 768, 3900, 4095} }
    \cup
    { <<JP(nnn)>> : nnn \in {4092, 4094, 4095} }

\* A register loaded with a key number, or with more, then Ex9E or ExA1.
KeyPrograms ==
    { <<LD(x, v), IF held THEN SKP(x) ELSE SKNP(x)>> :
          x \in {0, 15}, v \in {0, 1, 3, 15, 16, 255}, held \in BOOLEAN }

Programs ==
    ArithPrograms \cup CallPrograms \cup DrawTwicePrograms \cup DrawOverPrograms
        \cup WaitPrograms \cup TimerPrograms \cup OtherWordPrograms
        \cup StorePrograms \cup IndexPrograms \cup JumpPrograms \cup KeyPrograms

\* The sets of held keys the input provider publishes.
KeySets == {{}, {3}, {1, 15}}

----------------------------------------------------------------------------
(* The state machine *)

rand_bytes(m) ==
    IF fetch(m) # -1 /\ fetch(m) \div 4096 = 12 THEN 0..255 ELSE {0}

InitWith(programs) ==
    /\ \E words \in programs : chip8 = load_program(new, words)
    /\ overflow_checks \in BOOLEAN
    /\ cycles = 0
    /\ prev = [opcode |-> -1, m |-> new]

Init == InitWith(Programs)

\* One call of Chip8::emulate.
Emulate ==
    /\ chip8.fault = NoFault
    /\ cycles < MaxCycles
    /\ \E rnd \in rand_bytes(chip8) : chip8' = emulate(chip8, rnd)
    /\ prev' = [opcode |-> fetch(chip8), m |-> chip8]
    /\ cycles' = cycles + 1
    /\ UNCHANGED overflow_checks

\* Between cycles the input provider publishes a new key-state snapshot.
KeyProvider ==
    /\ chip8.fault = NoFault
    /\ cycles < MaxCycles
    /\ \E held \in KeySets :
           chip8' = [chip8 EXCEPT !.inputs = [k \in 0..(NUM_KEYS - 1) |-> k \in held]]
    /\ UNCHANGED <<overflow_checks, cycles, prev>>

\* The program as it is: nothing writes inputs, no key is ever held.
Next == Emulate

Spec == Init /\ [][Next]_vars

\* The machine with an input provider publishing key states between cycles.
InitKeys == InitWith(WaitPrograms \cup KeyPrograms)

NextKeys == Emulate \/ KeyProvider

SpecKeys == InitKeys /\ [][NextKeys]_vars

----------------------------------------------------------------------------
(* Properties.  prev.m is the machine at the start of the latest cycle,    *)
(* prev.opcode the opcode that cycle dispatched, chip8 the machine since.  *)

OpTop(op) == op \div 4096
OpX(op) == (op \div 256) % 16
OpY(op) == (op \div 16) % 16
OpN(op) == op % 16
OpKk(op) == op % 256
OpAddr(op) == op % 4096

Ran == cycles > 0
IsCall(op) == op # -1 /\ OpTop(op) = 2
IsSub(op) == op # -1 /\ OpTop(op) = 8 /\ OpN(op) = 5
IsSubN(op) == op # -1 /\ OpTop(op) = 8 /\ OpN(op) = 7
IsAddReg(op) == op # -1 /\ OpTop(op) = 8 /\ OpN(op) = 4
IsAddByte(op) == op # -1 /\ OpTop(op) = 7
IsDraw(op) == op # -1 /\ OpTop(op) = 13
IsWaitKey(op) == op # -1 /\ OpTop(op) = 15 /\ OpKk(op) = 10

\* The step is a cycle (not a key-state publication).
CycleStep == cycles' = cycles + 1

\* C1: a CALL dispatched at pc = p with stack_pointer < 16, followed by the
\* RETURN that balances it, leaves pc = p + 2 and stack_pointer as it was
\* before the CALL.  Stated for the RETURN executed in the cycle right after
\* the CALL (nothing in between).
C1_CallThenReturn ==
    [][ ( /\ CycleStep
          /\ IsCall(prev.opcode)
          /\ prev.m.stack_pointer < STACK_SIZE
          /\ chip8.fault = NoFault
          /\ fetch(chip8) = RET )
        => ( /\ chip8'.fault = NoFault
             /\ chip8'.pc = prev.m.pc + 2
             /\ chip8'.stack_pointer = prev.m.stack_pointer ) ]_vars

\* C2: a cycle that executes CALL nnn with stack_pointer < 16 ends with
\* pc = nnn, the return address (old pc + 2) in the slot the next RETURN
\* pops, and stack_pointer one higher.
C2_CallEffect ==
    (Ran /\ IsCall(prev.opcode) /\ prev.m.stack_pointer < STACK_SIZE)
    => ( /\ chip8.fault = NoFault
         /\ chip8.pc = OpAddr(prev.opcode)
         /\ chip8.stack_pointer = prev.m.stack_pointer + 1
         /\ chip8.stack[chip8.stack_pointer - 1] = prev.m.pc + 2 )

\* C3: the stack bounds are checked before the pointer moves: stack_pointer
\* stays in 0..16, a RETURN on the empty stack leaves the pointer at 0, a
\* CALL below depth 16 is accepted, and no CALL or RETURN ends in an
\* arithmetic-overflow panic or indexes the stack outside its 16 slots.
C3_StackBounds ==
    /\ chip8.stack_pointer \in 0..STACK_SIZE
    /\ (Ran /\ prev.opcode = RET /\ prev.m.stack_pointer = 0)
       => chip8.stack_pointer = 0
    /\ (Ran /\ IsCall(prev.opcode) /\ prev.m.stack_pointer < STACK_SIZE)
       => chip8.fault = NoFault
    /\ (Ran /\ (prev.opcode = RET \/ IsCall(prev.opcode)))
       => chip8.fault \notin {ArithOverflow, IndexOutOfBounds}

\* C4: 7xkk, 8xy5 and 8xy7 wrap modulo 256 and never end the cycle in a
\* fault: Vx = (Vx + kk) mod 256, (Vx - Vy) mod 256, (Vy - Vx) mod 256
\* (x other than F for the subtractions).
C4_WrappingArithmetic ==
    LET op == prev.opcode
        x  == OpX(op)
        y  == OpY(op)
        vx == prev.m.registers[x]
        vy == prev.m.registers[y]
    IN  /\ (Ran /\ IsAddByte(op))
           => ( /\ chip8.fault = NoFault
                /\ chip8.registers[x] = (vx + OpKk(op)) % 256 )
        /\ (Ran /\ IsSub(op) /\ x # 15)
           => ( /\ chip8.fault = NoFault
                /\ chip8.registers[x] = (vx - vy + 256) % 256 )
        /\ (Ran /\ IsSubN(op) /\ x # 15)
           => ( /\ chip8.fault = NoFault
                /\ chip8.registers[x] = (vy - vx + 256) % 256 )

\* C5: for all x, y in 0..15: after 8xy5 VF = 1 iff Vx >= Vy held before,
\* after 8xy7 VF = 1 iff Vy >= Vx held before, else VF = 0.  Stated for the
\* cycles that complete.
C5_BorrowFlag ==
    LET op == prev.opcode
        vx == prev.m.registers[OpX(op)]
        vy == prev.m.registers[OpY(op)]
    IN  /\ (Ran /\ IsSub(op) /\ chip8.fault = NoFault)
           => chip8.registers[15] = (IF vx >= vy THEN 1 ELSE 0)
        /\ (Ran /\ IsSubN(op) /\ chip8.fault = NoFault)
           => chip8.registers[15] = (IF vy >= vx THEN 1 ELSE 0)

\* C6: for all x, y in 0..15: 8xy4 completes, leaves VF = 1 iff the unwrapped
\* sum Vx + Vy exceeds 255 and VF = 0 otherwise, and for x other than F
\* leaves Vx = (Vx + Vy) mod 256.
C6_AddCarry ==
    LET op == prev.opcode
        x  == OpX(op)
        vx == prev.m.registers[x]
        vy == prev.m.registers[OpY(op)]
    IN  (Ran /\ IsAddReg(op))
        => ( /\ chip8.fault = NoFault
             /\ chip8.registers[15] = (IF vx + vy > 255 THEN 1 ELSE 0)
             /\ x # 15 => chip8.registers[x] = (vx + vy) % 256 )

\* 8FF4 has run on VF = 200: the sum 400 wraps and VF holds the carry.
C6_Witness ==
    /\ Ran
    /\ IsAddReg(prev.opcode)
    /\ OpX(prev.opcode) = 15
    /\ OpY(prev.opcode) = 15
    /\ prev.m.registers[15] = 200
    /\ chip8.registers[15] = 1
    /\ chip8.fault = NoFault

\* The 16-bit word at address a.
Word(m, a) == mem_read(m.memory, a) * 256 + mem_read(m.memory, a + 1)

\* The bits <<row, col>> (col 0 = most significant) set in the n sprite bytes
\* at memory[index..], and the cells a DRAW with opcode op lands them on.
SpriteBits(m, n) ==
    { rc \in (0..(n - 1)) \X (0..7) :
          (mem_read(m.memory, m.index + rc[1]) \div Pow2(7 - rc[2])) % 2 = 1 }

Landed(m, op) ==
    { << (m.registers[OpY(op)] + rc[1]) % 32, (m.registers[OpX(op)] + rc[2]) % 64 >> :
          rc \in SpriteBits(m, OpN(op)) }

\* C7: a DRAW that completes XORs every set sprite bit of all n rows into
\* cell ((Vy + row) mod 32, (Vx + col) mod 64) and changes no other cell;
\* VF = 1 iff one of those cells was true before, VF = 0 otherwise.
C7_DrawCollision ==
    (Ran /\ IsDraw(prev.opcode) /\ chip8.fault = NoFault)
    => LET cells == Landed(prev.m, prev.opcode) IN
       /\ \A c \in cells \cup prev.m.display \cup chip8.display :
              (c \in chip8.display) = ((c \in prev.m.display) # (c \in cells))
       /\ chip8.registers[15] = (IF cells \cap prev.m.display # {} THEN 1 ELSE 0)

\* A draw has hit lit cells (VF = 1) and has also lit cells that were dark.
C7_Witness ==
    /\ Ran
    /\ IsDraw(prev.opcode)
    /\ chip8.fault = NoFault
    /\ Landed(prev.m, prev.opcode) \cap prev.m.display # {}
    /\ Landed(prev.m, prev.opcode) \ prev.m.display # {}
    /\ chip8.registers[15] = 1
    /\ chip8.display \ prev.m.display # {}

\* The step is the second of two successive cycles executing the same DRAW
\* with index, Vx, Vy and the sprite bytes the same for both, and completes.
SecondEqualDraw ==
    /\ CycleStep
    /\ Ran
    /\ IsDraw(prev.opcode)
    /\ chip8.fault = NoFault
    /\ fetch(chip8) = prev.opcode
    /\ chip8.index = prev.m.index
    /\ chip8.memory = prev.m.memory
    /\ chip8.registers[OpX(prev.opcode)] = prev.m.registers[OpX(prev.opcode)]
    /\ chip8.registers[OpY(prev.opcode)] = prev.m.registers[OpY(prev.opcode)]
    /\ chip8'.fault = NoFault

\* C8 as claimed: the same DRAW executed twice in succession leaves the
\* framebuffer as it was before the first, and the second sets VF = 1
\* whenever the sprite has at least one set bit.
C8_DrawTwiceOriginal ==
    [][ SecondEqualDraw
        => ( /\ chip8'.display = prev.m.display
             /\ SpriteBits(chip8, OpN(prev.opcode)) # {} => chip8'.registers[15] = 1 ) ]_vars

\* C8 amended: the same DRAW executed twice in succession leaves the
\* framebuffer as it was before the first, and the second sets VF = 1
\* whenever a set sprite bit lands on a cell that was false before the first.
C8_DrawTwice ==
    [][ SecondEqualDraw
        => ( /\ chip8'.display = prev.m.display
             /\ Landed(prev.m, prev.opcode) \ prev.m.display # {}
                => chip8'.registers[15] = 1 ) ]_vars

\* The second of two equal draws has run over a framebuffer that an earlier
\* draw had filled: the sprite is gone again, the earlier picture is there.
C8_Witness ==
    /\ Ran
    /\ IsDraw(prev.opcode)
    /\ chip8.fault = NoFault
    /\ prev.m.pc >= PROGRAM_START + 2
    /\ Word(chip8, prev.m.pc - 2) = prev.opcode
    /\ chip8.registers[OpX(prev.opcode)] = 0
    /\ chip8.registers[OpY(prev.opcode)] = 0
    /\ SpriteBits(prev.m, OpN(prev.opcode)) # {}
    /\ chip8.registers[15] = 1
    /\ chip8.display # {}
    /\ chip8.display # prev.m.display

\* C9: after CLS followed by a DRAW, a cell is true iff a set bit of the
\* drawn sprite lands on it, and VF = 0.
C9_ClearThenDraw ==
    [][ ( /\ CycleStep
          /\ Ran
          /\ prev.opcode = CLS
          /\ chip8.fault = NoFault
          /\ IsDraw(fetch(chip8))
          /\ chip8'.fault = NoFault )
        => ( /\ chip8'.display = Landed(chip8, fetch(chip8))
             /\ chip8'.registers[15] = 0 ) ]_vars

\* Glyph 0 was drawn, the display cleared, then glyph 1 drawn: the display
\* holds glyph 1 alone.
C9_Witness ==
    /\ cycles = 5
    /\ Word(chip8, 512) = LDI(0)
    /\ Word(chip8, 514) = DRW(0, 0, 5)
    /\ Word(chip8, 518) = CLS
    /\ prev.opcode = DRW(0, 1, 5)
    /\ chip8.index = 5
    /\ chip8.fault = NoFault
    /\ chip8.registers[15] = 0
    /\ chip8.display = {<<0, 2>>, <<1, 1>>, <<1, 2>>, <<2, 2>>, <<3, 2>>,
                        <<4, 1>>, <<4, 2>>, <<4, 3>>}

NoKeyHeld(m) == \A k \in 0..(NUM_KEYS - 1) : ~m.inputs[k]
Dec(t) == IF t > 0 THEN t - 1 ELSE 0

\* C10: a cycle that dispatches Fx0A while no key is held ends with pc where
\* it was at the start of the cycle (the same instruction is next again),
\* all registers unchanged, and each timer one lower if it was nonzero.
C10_WaitNoKey ==
    (Ran /\ IsWaitKey(prev.opcode) /\ NoKeyHeld(prev.m))
    => ( /\ chip8.fault = NoFault
         /\ chip8.pc = prev.m.pc
         /\ fetch(chip8) = prev.opcode
         /\ chip8.registers = prev.m.registers
         /\ chip8.delay_timer = Dec(prev.m.delay_timer)
         /\ chip8.sound_timer = Dec(prev.m.sound_timer) )

\* The wait at 0x206 has been re-polled at least twice with no key held,
\* both timers still running.
C10_Witness ==
    /\ cycles >= 5
    /\ IsWaitKey(prev.opcode)
    /\ NoKeyHeld(prev.m)
    /\ prev.m.pc = 518
    /\ chip8.pc = 518
    /\ prev.m.delay_timer > 0
    /\ prev.m.sound_timer > 0
    /\ chip8.delay_timer = prev.m.delay_timer - 1
    /\ chip8.sound_timer = prev.m.sound_timer - 1

\* C11: a cycle that dispatches Fx0A while at least one key is held completes,
\* leaves in Vx the smallest k in 0..15 with key k held, and ends with pc 2
\* past the instruction; this holds whether or not earlier cycles re-polled
\* the same instruction, so a wait ends in the first cycle that sees a key.
C11_WaitKeyHeld ==
    (Ran /\ IsWaitKey(prev.opcode) /\ ~NoKeyHeld(prev.m))
    => ( /\ chip8.fault = NoFault
         /\ prev.m.inputs[chip8.registers[OpX(prev.opcode)]]
         /\ \A k \in 0..(NUM_KEYS - 1) :
                prev.m.inputs[k] => chip8.registers[OpX(prev.opcode)] <= k
         /\ chip8.pc = prev.m.pc + 2 )

\* The wait at 0x200 was re-polled at least once, then a cycle saw keys 1
\* and 15 held and ended the wait with the register holding 1.
C11_Witness ==
    /\ cycles >= 2
    /\ IsWaitKey(prev.opcode)
    /\ prev.m.pc = PROGRAM_START
    /\ prev.m.inputs[1]
    /\ prev.m.inputs[15]
    /\ chip8.registers[OpX(prev.opcode)] = 1
    /\ chip8.pc = PROGRAM_START + 2

\* The glyph of digit 1 as five row bytes, and the cells <<row, column>> a
\* sprite of these rows lights at the top-left corner, bit 7 at column 0.
GlyphOne == <<32, 96, 32, 32, 112>>
GlyphCells(rows) ==
    { c \in (0..(Len(rows) - 1)) \X (0..7) :
          BitAnd(rows[c[1] + 1], Shr(128, c[2])) # 0 }

RunsMainRom(m) ==
    \A i \in 1..Len(MainRom) : Word(m, PROGRAM_START + 2 * (i - 1)) = MainRom[i]

\* C12: with the ROM of main loaded into a fresh machine, the fourth cycle
\* starts at 0x206, and from the fourth cycle on V3 = 1, index = 5 and the
\* lit cells are exactly those of the glyph of digit 1 in rows 0..4,
\* columns 0..7; every cycle from the fourth on that starts at 0x206 with no
\* key held ends with pc = 0x206.
C12_MainRom ==
    (RunsMainRom(chip8) /\ cycles >= 4)
    => ( /\ chip8.fault = NoFault
         /\ chip8.registers[3] = 1
         /\ chip8.index = 5
         /\ chip8.display = GlyphCells(GlyphOne)
         /\ cycles = 4 => prev.m.pc = 518
         /\ (prev.m.pc = 518 /\ NoKeyHeld(prev.m)) => chip8.pc = 518 )

\* Six cycles of the ROM, the last three of them polls with no key held.
C12_Witness ==
    /\ RunsMainRom(chip8)
    /\ cycles = 6
    /\ prev.opcode = LDK(0)
    /\ NoKeyHeld(prev.m)
    /\ chip8.pc = 518
    /\ chip8.registers[3] = 1
    /\ chip8.registers[0] = 0
    /\ <<4, 3>> \in chip8.display

IsSetDelay(op) == op # -1 /\ OpTop(op) = 15 /\ OpKk(op) = 21
IsSetSound(op) == op # -1 /\ OpTop(op) = 15 /\ OpKk(op) = 24

\* C13: both timers always lie in 0..255, and after every completed cycle
\* each timer is one below the value the instruction left it with if that
\* was nonzero, and 0 if it was 0; the value the instruction leaves is the
\* register Fx15 (delay) or Fx18 (sound) stores and otherwise the value at
\* the start of the cycle, so neither timer depends on the other and no
\* instruction ticks twice or not at all.
C13_TimerTick ==
    /\ chip8.delay_timer \in 0..255
    /\ chip8.sound_timer \in 0..255
    /\ (Ran /\ chip8.fault = NoFault)
       => ( /\ chip8.delay_timer =
                   Dec(IF IsSetDelay(prev.opcode)
                       THEN prev.m.registers[OpX(prev.opcode)]
                       ELSE prev.m.delay_timer)
            /\ chip8.sound_timer =
                   Dec(IF IsSetSound(prev.opcode)
                       THEN prev.m.registers[OpX(prev.opcode)]
                       ELSE prev.m.sound_timer) )

\* A sprite is drawn while the delay timer has run out and the sound timer
\* has not: the first stays at 0, the second goes from 254 to 253.
C13_Witness ==
    /\ prev.opcode = DRW(0, 0, 1)
    /\ chip8.fault = NoFault
    /\ prev.m.delay_timer = 0
    /\ prev.m.sound_timer = 254
    /\ chip8.delay_timer = 0
    /\ chip8.sound_timer = 253

\* The opcodes that match no row of the instruction table.
InTable(op) ==
    LET top == OpTop(op) n == OpN(op) kk == OpKk(op) IN
    CASE top = 0 -> op \in {224, 238}
      [] top \in {5, 9} -> n = 0
      [] top = 8 -> n \in (0..7) \cup {14}
      [] top = 14 -> kk \in {158, 161}
      [] top = 15 -> kk \in {7, 10, 21, 24, 30, 41, 51, 85, 101}
      [] OTHER -> TRUE

\* C14: a cycle that dispatches an opcode matching no row of the
\* instruction table completes, ends with pc exactly 2 past the opcode and
\* leaves registers, index, memory, stack, stack pointer and display as they
\* were.
C14_UnknownOpcode ==
    (Ran /\ prev.opcode # -1 /\ ~InTable(prev.opcode))
    => ( /\ chip8.fault = NoFault
         /\ chip8.pc = prev.m.pc + 2
         /\ chip8.registers = prev.m.registers
         /\ chip8.index = prev.m.index
         /\ chip8.memory = prev.m.memory
         /\ chip8.stack = prev.m.stack
         /\ chip8.stack_pointer = prev.m.stack_pointer
         /\ chip8.display = prev.m.display )

\* C15: the 80 bytes from address 0 always equal the font table new() copied
\* there.
C15_FontIntact ==
    \A i \in 0..(Len(font_set) - 1) : mem_read(chip8.memory, i) = font_set[i + 1]

IsJumpV0(op) == op # -1 /\ OpTop(op) = 11

\* C16: the index register is always in 0..4095.
C16_IndexRange == chip8.index \in 0..(MEMORY_SIZE - 1)

\* C17: a cycle that dispatches Bnnn completes with pc = (nnn + V0) & 0x0FFF.
C17_JumpV0Masked ==
    (Ran /\ IsJumpV0(prev.opcode))
    => ( /\ chip8.fault = NoFault
         /\ chip8.pc = (OpAddr(prev.opcode) + prev.m.registers[0]) % 4096
         /\ chip8.pc <= 4095 )

IsBcd(op) == op # -1 /\ OpTop(op) = 15 /\ OpKk(op) = 51
IsStore(op) == op # -1 /\ OpTop(op) = 15 /\ OpKk(op) = 85
IsLoad(op) == op # -1 /\ OpTop(op) = 15 /\ OpKk(op) = 101

\* One cycle from chip8 to chip8' that dispatches Fx55 or Fx65 and returns.
StoreLoadStep ==
    LET op == fetch(chip8)
        x  == OpX(op)
        I  == chip8.index
    IN  /\ (IsStore(op) /\ chip8'.fault = NoFault)
           => ( /\ \A a \in 0..(MEMORY_SIZE - 1) :
                       mem_read(chip8'.memory, a) =
                           IF a >= I /\ a < I + x THEN chip8.registers[a - I]
                           ELSE mem_read(chip8.memory, a)
                /\ chip8'.registers = chip8.registers
                /\ chip8'.index = I )
        /\ (IsLoad(op) /\ chip8'.fault = NoFault)
           => ( /\ \A r \in 0..(NUM_REGISTERS - 1) :
                       chip8'.registers[r] =
                           IF r < x THEN mem_read(chip8.memory, I + r)
                           ELSE chip8.registers[r]
                /\ \A a \in 0..(MEMORY_SIZE - 1) :
                       mem_read(chip8'.memory, a) = mem_read(chip8.memory, a)
                /\ chip8'.index = I )
        /\ ( /\ IsLoad(op) /\ chip8'.fault = NoFault
             /\ Ran /\ IsStore(prev.opcode)
             /\ OpX(prev.opcode) = x /\ prev.m.index = I )
           => \A r \in 0..(x - 1) : chip8'.registers[r] = prev.m.registers[r]

\* C18: a cycle of Fx55 that returns leaves memory[I + k] = Vk for k < x and
\* every other byte of memory, every register and I as they were (Vx is not
\* stored, x = 0 stores nothing); a cycle of Fx65 that returns leaves
\* Vk = memory[I + k] for k < x and every other register, memory and I as
\* they were; an Fx65 that follows an Fx55 with the same I and x leaves
\* V0..V(x-1) as they were before the Fx55.
C18_StoreLoad == [][CycleStep => StoreLoadStep]_vars

\* F155 has stored V0 = 7 at 768 and not V1 = 255 (memory[769] stays 0),
\* and F165 has loaded V0 back, V1 left alone.
C18_Witness ==
    /\ prev.opcode = LDXI(1)
    /\ cycles = 5
    /\ chip8.fault = NoFault
    /\ chip8.index = 768
    /\ chip8.registers[0] = 7
    /\ chip8.registers[1] = 255
    /\ mem_read(chip8.memory, 768) = 7
    /\ mem_read(chip8.memory, 769) = 0

IsSkp(op) == op # -1 /\ OpTop(op) = 14 /\ OpKk(op) = 158
IsSknp(op) == op # -1 /\ OpTop(op) = 14 /\ OpKk(op) = 161

\* The memory indices the cycle that starts in m uses: pc and pc + 1 for the
\* fetch, then those of the instruction fetched.
MemoryIndices(m) ==
    {m.pc, m.pc + 1}
    \cup
    ( IF m.pc + 1 >= MEMORY_SIZE THEN {}
      ELSE LET op == Word(m, m.pc) IN
           IF IsDraw(op) THEN { m.index + k : k \in 0..(OpN(op) - 1) }
           ELSE IF IsBcd(op) THEN { m.index, m.index + 1, m.index + 2 }
           ELSE IF IsStore(op) \/ IsLoad(op)
                THEN { m.index + k : k \in 0..(OpX(op) - 1) }
                ELSE {} )

\* C19: in every state a cycle starts from, every memory index that cycle
\* uses (the fetch at pc and pc + 1, the reads of DRAW at I..I+n-1, the
\* writes of Fx33 at I..I+2, the accesses of Fx55 and Fx65 at I..I+x-1) lies
\* in 0..4095.
C19_MemoryIndexInRange ==
    (chip8.fault = NoFault) => MemoryIndices(chip8) \subseteq 0..(MEMORY_SIZE - 1)

\* C20: a cycle that dispatches Ex9E or ExA1 completes whatever Vx holds;
\* when Vx names a key, pc ends 4 past the instruction if that key is held
\* (Ex9E) or not held (ExA1) and 2 past it otherwise; registers, index,
\* memory, stack and display are as they were.
C20_SkipOnKey ==
    (Ran /\ (IsSkp(prev.opcode) \/ IsSknp(prev.opcode)))
    => LET v == prev.m.registers[OpX(prev.opcode)] IN
       /\ chip8.fault = NoFault
       /\ v < NUM_KEYS
          => chip8.pc = prev.m.pc +
                 (IF prev.m.inputs[v] = IsSkp(prev.opcode) THEN 4 ELSE 2)
       /\ chip8.pc \in {prev.m.pc + 2, prev.m.pc + 4}
       /\ chip8.registers = prev.m.registers
       /\ chip8.index = prev.m.index
       /\ chip8.memory = prev.m.memory
       /\ chip8.stack = prev.m.stack
       /\ chip8.stack_pointer = prev.m.stack_pointer
       /\ chip8.display = prev.m.display

====
